---- MODULE Spec2Model ----
(***************************************************************************)
(* The report participation model of src/src/models.py (User, Report,      *)
(* ReportParticipant with its Registered / Unregistered variants,          *)
(* ReportParticipantRole) and the helpers of src/src/utils.py.             *)
(*                                                                         *)
(* The state is the committed content of the five tables.  Every action is *)
(* one unit of work: the Python statements that build or change objects,   *)
(* followed by session.commit(), which either applies all of its           *)
(* statements or rolls all of them back.                                   *)
(***************************************************************************)
EXTENDS Integers, Sequences, FiniteSets, TLC

\* ------------------------------------------------------------------ bounds
\* The rows each table may hold; ids do not exceed the bound of their table.
MaxUsers == 1
MaxReports == 2
MaxParticipants == 2
MaxRoleRows == 3

\* ------------------------------------------------------------- constants
\* Python's None / SQL NULL for an integer column (ids start at 1).
NULL == 0
\* Python's None / SQL NULL for a string column.
NoneStr == "<None>"

\* class Role(enum.Enum): the names of its members.
Role == {"creator", "reporter", "observer"}

\* What a caller may hand over as a role: a member of Role, or a string.
EnumMember(n) == [kind |-> "enum", v |-> n]
Str(s) == [kind |-> "str", v |-> s]
RoleInputs ==
    {EnumMember(n) : n \in Role}
        \cup {Str(s) : s \in {"creator", "Creator", "admin"}}

\* The role lists create_participant is called with in test_models.py, the
\* empty list, and two lists that hold a string.
RoleLists ==
    {<<>>,
     <<EnumMember("creator")>>,
     <<EnumMember("creator"), EnumMember("creator")>>,
     <<EnumMember("creator"), EnumMember("observer")>>,
     <<EnumMember("creator"), EnumMember("reporter"), EnumMember("observer")>>,
     <<Str("reporter"), Str("Creator")>>,
     <<Str("admin")>>}

Names == {"Jane Doe"}

\* A keyword argument: given or not, and its value.
Given(v) == [given |-> TRUE, value |-> v]
Unset == [given |-> FALSE, value |-> NULL]
UnsetStr == [given |-> FALSE, value |-> NoneStr]

VARIABLES
    user,                             \* table user: the ids
    report,                           \* table report: the ids
    report_participant,               \* rows [id, report_id, is_registered, user_id]
    report_participant_unregistered,  \* rows [id, name]
    report_participant_role,          \* rows [role, report_id, participant_id]
    last                              \* the last operation and its outcome

vars ==
    <<user, report, report_participant, report_participant_unregistered,
      report_participant_role, last>>

DB ==
    [user |-> user,
     report |-> report,
     report_participant |-> report_participant,
     report_participant_unregistered |-> report_participant_unregistered,
     report_participant_role |-> report_participant_role]

\* The id an INSERT without one is given: one more than the largest in use
\* (SQLite's rowid, the engine of src/src/__init__.py).
NextId(ids) == IF ids = {} THEN 1 ELSE (CHOOSE m \in ids : \A x \in ids : x <= m) + 1

ParticipantIds(db) == {p.id : p \in db.report_participant}

Ret(db, result) == [db |-> db, result |-> result]

IsError(result) == result # "ok"

\* sqlalchemy.exc.IntegrityError, with the constraint the database names.
PK_ROLE == "IntegrityError: pk_unique_report_role_combination"
FK_ROLE == "IntegrityError: fk_report_participant_composite_reference"
PARTICIPANT_ROW == "IntegrityError: report_participant"
UNREGISTERED_NAME == "IntegrityError: report_participant_unregistered.name"
FK_REPORT == "IntegrityError: report_participant.report_id"
IntegrityError == {PK_ROLE, FK_ROLE, PARTICIPANT_ROW, UNREGISTERED_NAME, FK_REPORT}

\* ---------------------------------------------------------- column types

\* Enum(Role) with validate_strings=False: a string that names no member is
\* passed through to the database as it is.
Enum_db_value_unvalidated(elem) == [ok |-> TRUE, value |-> elem.v]

\* Enum(Role, validate_strings=True): the value bound for the role column.
\* A member is stored under its name; a string must be the name of a member.
Enum_db_value(elem) ==
    IF elem.kind = "enum"
    THEN [ok |-> TRUE, value |-> elem.v]
    ELSE IF elem.v \in Role
         THEN [ok |-> TRUE, value |-> elem.v]
         ELSE [ok |-> FALSE, value |-> elem.v]

\* --------------------------------------------------------- constraints

\* A primary key over (role, participant_id) instead of (role, report_id).
pk_unique_participant_role_combination(table, row) ==
    ~ \E x \in table : x.role = row.role /\ x.participant_id = row.participant_id

\* PrimaryKeyConstraint(role, report_id): may `row` be inserted into `table`.
pk_unique_report_role_combination(table, row) ==
    ~ \E x \in table : x.role = row.role /\ x.report_id = row.report_id

\* ForeignKeyConstraint([report_id, participant_id] ->
\*                      [report_participant.report_id, report_participant.id]).
fk_report_participant_composite_reference(participants, row) ==
    \E p \in participants : p.report_id = row.report_id /\ p.id = row.participant_id

\* report_participant: report_id NOT NULL, ForeignKey(Report.id);
\* user_id nullable, ForeignKey(User.id).
report_participant_insertable(db, row) ==
    /\ row.report_id # NULL
    /\ row.report_id \in db.report
    /\ (row.user_id = NULL \/ row.user_id \in db.user)

\* report_participant_unregistered: name NOT NULL.
report_participant_unregistered_insertable(row) == row.name # NoneStr

\* The role rows of a participant, as the role_associations relationship
\* loads them (join on both columns of the composite foreign key).
role_associations(db, p) ==
    {x \in db.report_participant_role :
        x.report_id = p.report_id /\ x.participant_id = p.id}

\* The participants of a report, as Report.participants loads them.
participants(db, r) == {p \in db.report_participant : p.report_id = r}

\* ------------------------------------------------------ the mapped classes

\* ReportParticipant.report_id.setter: the value _report_id holds afterwards,
\* or AttributeError when it already holds one.
report_id_setter(current, value) ==
    IF current # NULL
    THEN [result |-> "AttributeError", value |-> current]
    ELSE [result |-> "ok", value |-> value]

\* ReportParticipantRegistered.validate_user_id, run when user_id is assigned.
validate_user_id(value) == IF value = NULL THEN "ValueError" ELSE "ok"

\* The keyword arguments of a constructor call.  `other` stands for keywords
\* that name no attribute of the class (association=, role=).
Kwargs(report_id, rep, user_id, usr, name, roles, other) ==
    [report_id |-> report_id, report |-> rep, user_id |-> user_id, user |-> usr,
     name |-> name, roles |-> roles, other |-> other]

NoObject ==
    [is_registered |-> FALSE, _report_id |-> NULL, report |-> NULL,
     user_id |-> NULL, user |-> NULL, name |-> NoneStr, roles |-> <<>>]

\* ReportParticipant.__init__(self, *args, report_id, **kwargs) followed by the
\* declarative constructor, which sets every keyword that names an attribute
\* of the class and raises TypeError for any other.
ReportParticipant__init__(is_registered, kw) ==
    IF ~ kw.report_id.given
    THEN [result |-> "TypeError", obj |-> NoObject]
    ELSE
      LET set == report_id_setter(NULL, kw.report_id.value)
          obj == [is_registered |-> is_registered,
                  _report_id |-> set.value,
                  report |-> IF kw.report.given THEN kw.report.value ELSE NULL,
                  user_id |-> IF kw.user_id.given THEN kw.user_id.value ELSE NULL,
                  user |-> IF kw.user.given THEN kw.user.value ELSE NULL,
                  name |-> IF kw.name.given THEN kw.name.value ELSE NoneStr,
                  roles |-> kw.roles]
          result ==
              IF kw.other THEN "TypeError"
              ELSE IF is_registered
                   THEN IF kw.name.given
                        THEN "AttributeError"  \* name is a property without a setter
                        ELSE IF kw.user_id.given
                             THEN validate_user_id(kw.user_id.value)
                             ELSE "ok"
                   ELSE IF kw.user_id.given \/ kw.user.given
                        THEN "TypeError"       \* Unregistered has no user_id, no user
                        ELSE "ok"
      IN [result |-> result, obj |-> IF result = "ok" THEN obj ELSE NoObject]

\* ------------------------------------------------------- the unit of work

\* A commit that keeps whatever its statements wrote before one of them failed.
session_commit_without_rollback(before, res) == res

\* session.commit(): all statements of the unit of work, or none of them.
session_commit(before, res) ==
    IF IsError(res.result) THEN Ret(before, res.result) ELSE res

\* INSERT INTO report_participant_role, row by row, stopping at the first
\* row the table refuses.
RECURSIVE insert_roles(_, _, _)
insert_roles(db, rows, i) ==
    IF i > Len(rows)
    THEN Ret(db, "ok")
    ELSE IF ~ pk_unique_report_role_combination(db.report_participant_role, rows[i])
    THEN Ret(db, PK_ROLE)
    ELSE IF ~ fk_report_participant_composite_reference(db.report_participant, rows[i])
         THEN Ret(db, FK_ROLE)
         ELSE insert_roles(
                  [db EXCEPT !.report_participant_role = @ \cup {rows[i]}], rows, i + 1)

\* The role rows the association proxy builds for a participant: the creator
\* makes ReportParticipantRole(role=role), the relationship fills in report_id
\* and participant_id from the participant at flush.
role_rows(elems, report_id, participant_id) ==
    [i \in 1..Len(elems) |->
        [role |-> Enum_db_value(elems[i]).value,
         report_id |-> report_id,
         participant_id |-> participant_id]]

roles_bindable(elems) == \A i \in 1..Len(elems) : Enum_db_value(elems[i]).ok

\* The flush of one new participant object with its role_associations:
\* INSERT report_participant, INSERT report_participant_unregistered (for the
\* joined-table variant), INSERT report_participant_role.
flush_new_participant(db, obj) ==
    LET id == NextId(ParticipantIds(db))
        report_id == IF obj.report # NULL THEN obj.report ELSE obj._report_id
        user_id == IF obj.user # NULL THEN obj.user ELSE obj.user_id
        row == [id |-> id, report_id |-> report_id,
                is_registered |-> obj.is_registered, user_id |-> user_id]
        urow == [id |-> id, name |-> obj.name]
        db1 == [db EXCEPT !.report_participant = @ \cup {row}]
        db2 == IF obj.is_registered
               THEN db1
               ELSE [db1 EXCEPT !.report_participant_unregistered = @ \cup {urow}]
    IN IF ~ report_participant_insertable(db, row)
       THEN Ret(db, PARTICIPANT_ROW)
       ELSE IF ~ obj.is_registered /\ ~ report_participant_unregistered_insertable(urow)
            THEN Ret(db1, UNREGISTERED_NAME)
            ELSE IF ~ roles_bindable(obj.roles)
                 THEN Ret(db2, "StatementError")  \* wraps the Enum's LookupError
                 ELSE insert_roles(db2, role_rows(obj.roles, report_id, id), 1)

\* Report.participants and ReportParticipant.role_associations without their
\* delete cascade, on a database that does not enforce foreign keys: only
\* the report's own row and its participants' rows go.
session_delete_report_without_role_cascade(db, r) ==
    Ret([db EXCEPT !.report = @ \ {r},
                   !.report_participant = @ \ participants(db, r)], "ok")

\* session.delete(participant): cascade="all, delete-orphan" on
\* role_associations deletes the role rows first, then the participant's rows.
session_delete_participant(db, p) ==
    Ret([db EXCEPT
            !.report_participant_role = @ \ role_associations(db, p),
            !.report_participant_unregistered = {u \in @ : u.id # p.id},
            !.report_participant = @ \ {p}], "ok")

RECURSIVE session_delete_participants(_, _)
session_delete_participants(db, ps) ==
    IF ps = {}
    THEN db
    ELSE LET p == CHOOSE x \in ps : TRUE
         IN session_delete_participants(session_delete_participant(db, p).db, ps \ {p})

\* session.delete(report): cascade="all, delete-orphan" on Report.participants
\* deletes every participant of the report (and through it its role rows),
\* then DELETE FROM report, which the foreign keys on report_id must allow.
session_delete_report(db, r) ==
    LET db1 == session_delete_participants(db, participants(db, r))
    IN IF \E p \in db1.report_participant : p.report_id = r
       THEN Ret(db1, FK_REPORT)
       ELSE Ret([db1 EXCEPT !.report = @ \ {r}], "ok")

\* participant.report = <Report r>, flushed: UPDATE report_participant SET
\* report_id = r.  The relationship writes the column itself; the report_id
\* property and its setter are not involved.  The composite foreign key of
\* report_participant_role (no ON UPDATE CASCADE) refuses the update while
\* role rows reference the old (report_id, id).
flush_set_report(db, p, r) ==
    IF r = p.report_id
    THEN Ret(db, "ok")
    ELSE IF r \notin db.report
    THEN Ret(db, FK_REPORT)
    ELSE IF role_associations(db, p) # {}
         THEN Ret(db, FK_ROLE)
         ELSE Ret([db EXCEPT !.report_participant =
                       (@ \ {p}) \cup {[p EXCEPT !.report_id = r]}], "ok")

\* session.add_all(objs); session.commit(): one flush of all the objects.
RECURSIVE flush_all(_, _, _)
flush_all(db, objs, i) ==
    IF i > Len(objs)
    THEN Ret(db, "ok")
    ELSE LET f == flush_new_participant(db, objs[i])
         IN IF IsError(f.result) THEN f ELSE flush_all(f.db, objs, i + 1)

session_add_all(db, objs) == session_commit(db, flush_all(db, objs, 1))

\* ------------------------------------------------------------ utils.py

\* create_user(session, n): n users, committed.
create_user(db, n) ==
    Ret([db EXCEPT !.user = @ \cup (NextId(db.user)..(NextId(db.user) + n - 1))], "ok")

\* create_report(session, n): n reports, committed.
create_report(db, n) ==
    Ret([db EXCEPT !.report = @ \cup (NextId(db.report)..(NextId(db.report) + n - 1))],
        "ok")

Built(db, result, objs) == [db |-> db, result |-> result, objs |-> objs]

\* [Registered(user=create_user(session)) for i in range(n)]: the argument is
\* evaluated, and its user committed, before the constructor is entered.
RECURSIVE build_registered(_, _, _)
build_registered(db, n, objs) ==
    IF n = 0
    THEN Built(db, "ok", objs)
    ELSE LET u == create_user(db, 1)
             c == ReportParticipant__init__(TRUE,
                      Kwargs(Unset, Unset, Unset, Given(NextId(db.user)), UnsetStr,
                             <<>>, FALSE))
         IN IF IsError(c.result)
            THEN Built(u.db, c.result, objs)
            ELSE build_registered(u.db, n - 1, Append(objs, c.obj))

\* [Unregistered(name=f"Unregistered {i}") for i in range(n)]
RECURSIVE build_unregistered(_, _, _)
build_unregistered(db, n, objs) ==
    IF n = 0
    THEN Built(db, "ok", objs)
    ELSE LET c == ReportParticipant__init__(FALSE,
                      Kwargs(Unset, Unset, Unset, Unset,
                             [given |-> TRUE, value |-> "Unregistered"], <<>>, FALSE))
         IN IF IsError(c.result)
            THEN Built(db, c.result, objs)
            ELSE build_unregistered(db, n - 1, Append(objs, c.obj))

\* create_registered(session, n)
create_registered(db, n) ==
    LET b == build_registered(db, n, <<>>)
    IN IF IsError(b.result) THEN Ret(b.db, b.result) ELSE session_add_all(b.db, b.objs)

\* create_unregistered(session, n)
create_unregistered(db, n) ==
    LET b == build_unregistered(db, n, <<>>)
    IN IF IsError(b.result) THEN Ret(b.db, b.result) ELSE session_add_all(b.db, b.objs)

\* The loops of create_participant: Participant(report=report,
\* association=association, role=role) for every report and every role.
RECURSIVE build_participants(_, _, _, _)
build_participants(db, reports, nroles, objs) ==
    IF Len(objs) = Len(reports) * nroles
    THEN Built(db, "ok", objs)
    ELSE LET rep == reports[(Len(objs) \div nroles) + 1]
             c == ReportParticipant__init__(FALSE,
                      Kwargs(Unset, Given(rep), Unset, Unset, UnsetStr, <<>>, TRUE))
         IN IF IsError(c.result)
            THEN Built(db, c.result, objs)
            ELSE build_participants(db, reports, nroles, Append(objs, c.obj))

\* create_participant(session, roles, registered, two_reports)
create_participant(db, roles, registered, two_reports) ==
    LET n == IF two_reports THEN 2 ELSE 1
        r == create_report(db, n)
        reports == [i \in 1..n |-> NextId(db.report) + i - 1]
        a == IF registered THEN create_registered(r.db, 1) ELSE create_unregistered(r.db, 1)
        b == build_participants(a.db, reports, Len(roles), <<>>)
    IN IF IsError(a.result)
       THEN Ret(a.db, a.result)
       ELSE IF IsError(b.result)
            THEN Ret(b.db, b.result)
            ELSE session_add_all(b.db, b.objs)

\* ------------------------------------------------------------- actions

\* A request names a role of Role twice, or one its report already has.
Duplicates(db, elems, report_id) ==
    \E i \in 1..Len(elems) :
        /\ Enum_db_value(elems[i]).ok
        /\ \/ \E j \in 1..(i - 1) : Enum_db_value(elems[j]) = Enum_db_value(elems[i])
           \/ \E x \in db.report_participant_role :
                 x.role = Enum_db_value(elems[i]).value /\ x.report_id = report_id

\* What the last operation was, how it ended, and what it was asked:
\* report: the report deleted, or the first report create_participant made;
\* role: the role handed to roles.append; roles, registered, two_reports:
\* the arguments of create_participant; dup: the request names a role twice
\* for one report; n: the role rows a delete cascaded to.
Last(op, result) ==
    [op |-> op, result |-> result, report |-> NULL, role |-> "", roles |-> <<>>,
     registered |-> FALSE, two_reports |-> FALSE, dup |-> FALSE, n |-> 0]

Store(db) ==
    /\ user' = db.user
    /\ report' = db.report
    /\ report_participant' = db.report_participant
    /\ report_participant_unregistered' = db.report_participant_unregistered
    /\ report_participant_role' = db.report_participant_role

\* The model's bounds: the rows an operation may add, and the ids it may use.
Fits(nusers, nreports, nparticipants, nroles) ==
    /\ NextId(user) + nusers - 1 <= MaxUsers
    /\ NextId(report) + nreports - 1 <= MaxReports
    /\ NextId(ParticipantIds(DB)) + nparticipants - 1 <= MaxParticipants
    /\ Cardinality(report_participant_role) + nroles <= MaxRoleRows

Init ==
    /\ user = {}
    /\ report = {}
    /\ report_participant = {}
    /\ report_participant_unregistered = {}
    /\ report_participant_role = {}
    /\ last = Last("init", "ok")

CreateUser ==
    \E n \in 0..2 :
        /\ Fits(n, 0, 0, 0)
        /\ LET res == create_user(DB, n)
           IN Store(res.db) /\ last' = Last("create_user", res.result)

CreateReport ==
    \E n \in 0..2 :
        /\ Fits(0, n, 0, 0)
        /\ LET res == create_report(DB, n)
           IN Store(res.db) /\ last' = Last("create_report", res.result)

CreateRegistered ==
    \E n \in 0..1 :
        /\ Fits(n, 0, n, 0)
        /\ LET res == create_registered(DB, n)
           IN Store(res.db)
              /\ last' = Last("create_registered", res.result)

CreateUnregistered ==
    \E n \in 0..1 :
        /\ Fits(0, 0, n, 0)
        /\ LET res == create_unregistered(DB, n)
           IN Store(res.db)
              /\ last' = Last("create_unregistered", res.result)

CreateParticipant ==
    \E roles \in RoleLists, registered \in BOOLEAN, two_reports \in BOOLEAN :
        LET n == IF two_reports THEN 2 ELSE 1
        IN /\ Fits(IF registered THEN 1 ELSE 0, n, 0, 0)
           /\ LET res == create_participant(DB, roles, registered, two_reports)
              IN Store(res.db)
                 /\ last' = [Last("create_participant", res.result) EXCEPT
                                     !.report = NextId(report),
                                     !.roles = roles,
                                     !.registered = registered,
                                     !.two_reports = two_reports,
                                     !.dup = Duplicates(DB, roles, NextId(report))]

\* A participant of either variant built with the models' constructor,
\* report_id given by id, roles handed to the association proxy, then
\* session.add and session.commit.
NewParticipant ==
    \E is_registered \in BOOLEAN,
       rid \in report \cup {NULL, NextId(report)},
       ukw \in {Unset} \cup {Given(u) : u \in user \cup {NULL, NextId(user)}},
       nkw \in {UnsetStr} \cup {[given |-> TRUE, value |-> n] : n \in Names},
       roles \in RoleLists :
        /\ Fits(0, 0, 1, Len(roles))
        /\ LET c == ReportParticipant__init__(is_registered,
                        Kwargs(Given(rid), Unset, ukw, Unset, nkw, roles, FALSE))
               res == IF IsError(c.result)
                      THEN Ret(DB, c.result)
                      ELSE session_add_all(DB, <<c.obj>>)
           IN Store(res.db)
              /\ last' = [Last("new_participant", res.result) EXCEPT
                                  !.dup = Duplicates(DB, roles, rid)]

\* participant.roles.append(role); session.commit()
AssignRole ==
    \E p \in report_participant, elem \in RoleInputs :
        /\ Fits(0, 0, 0, 1)
        /\ LET rows == role_rows(<<elem>>, p.report_id, p.id)
               res == session_commit(DB,
                          IF ~ roles_bindable(<<elem>>)
                          THEN Ret(DB, "StatementError")
                          ELSE insert_roles(DB, rows, 1))
           IN Store(res.db)
              /\ last' = [Last("assign_role", res.result) EXCEPT
                                  !.role = elem.v,
                                  !.dup = Duplicates(DB, <<elem>>, p.report_id)]

\* session.delete(participant); session.commit()
DeleteParticipant ==
    \E p \in report_participant :
        LET res == session_commit(DB, session_delete_participant(DB, p))
        IN Store(res.db)
           /\ last' = Last("delete_participant", res.result)

\* session.delete(report); session.commit()
DeleteReport ==
    \E r \in report :
        LET res == session_commit(DB, session_delete_report(DB, r))
        IN Store(res.db)
           /\ last' = [Last("delete_report", res.result) EXCEPT
                          !.report = r,
                          !.n = Cardinality({x \in report_participant_role :
                                                x.report_id = r})]

\* participant.report_id = value on a persisted participant.
SetReportId ==
    \E p \in report_participant, value \in report \cup {NULL} :
        LET set == report_id_setter(p.report_id, value)
            res == IF IsError(set.result)
                   THEN Ret(DB, set.result)
                   ELSE session_commit(DB, flush_set_report(DB, p, set.value))
        IN Store(res.db) /\ last' = Last("set_report_id", res.result)

\* participant.report = <a persisted Report>; session.commit()
SetReport ==
    \E p \in report_participant, r \in report :
        LET res == session_commit(DB, flush_set_report(DB, p, r))
        IN Store(res.db) /\ last' = Last("set_report", res.result)

Next ==
    \/ CreateUser
    \/ CreateReport
    \/ CreateRegistered
    \/ CreateUnregistered
    \/ CreateParticipant
    \/ NewParticipant
    \/ AssignRole
    \/ DeleteParticipant
    \/ DeleteReport
    \/ SetReportId
    \/ SetReport

Spec == Init /\ [][Next]_vars

\* ------------------------------------------------------------- claims

Ids(rows) == {x.id : x \in rows}
RolesOf(p) == {x.role : x \in role_associations(DB, p)}
Distinct(elems) ==
    \A i, j \in 1..Len(elems) : elems[i].v = elems[j].v => i = j

\* C1: an attempt to persist a second role assignment for a (role, report)
\* pair that already has one, roles.append on a participant of that report as
\* well as create_participant with a role named twice, ends with
\* IntegrityError.
C1_DuplicateRoleIsIntegrityError ==
    (last.op \in {"assign_role", "create_participant"} /\ last.dup)
        => last.result \in IntegrityError

\* C2: a delete of a report without participants succeeds; after a delete of
\* a report, the report, its participants, their unregistered rows and their
\* role rows are gone, and the rows of the other reports are as they were.
C2_CascadeDelete ==
    [][last'.op = "delete_report" =>
         LET r == last'.report
             gone == participants(DB, r)
         IN /\ gone = {} => last'.result = "ok"
            /\ last'.result = "ok" =>
                 /\ r \notin report'
                 /\ report' = report \ {r}
                 /\ \A p \in report_participant' : p.report_id # r
                 /\ \A x \in report_participant_role' :
                        x.report_id # r /\ x.participant_id \notin Ids(gone)
                 /\ \A u \in report_participant_unregistered' : u.id \notin Ids(gone)
                 /\ report_participant' = report_participant \ gone
                 /\ report_participant_role' =
                        {x \in report_participant_role : x.participant_id \notin Ids(gone)}
                 /\ report_participant_unregistered' =
                        {u \in report_participant_unregistered : u.id \notin Ids(gone)}
    ]_vars

\* C2's case: a report whose participants held roles was deleted, and a
\* participant of another report is still there with its role.
C2_Witness ==
    /\ last.op = "delete_report"
    /\ last.result = "ok"
    /\ last.n > 0
    /\ \E p \in report_participant : RolesOf(p) # {}

\* C3: no step changes the report_id of a persisted participant.
C3_ReportReferenceImmutable ==
    [][\A p \in report_participant : \A q \in report_participant' :
           q.id = p.id => q.report_id = p.report_id]_vars

C5_DiscriminatorConsistent ==
    \A p \in report_participant :
        IF p.is_registered
        THEN /\ p.user_id # NULL
             /\ p.id \notin Ids(report_participant_unregistered)
        ELSE /\ p.user_id = NULL
             /\ \E u \in report_participant_unregistered :
                    u.id = p.id /\ u.name # NoneStr

C7_CreateParticipantRoundTrip ==
    (/\ last.op = "create_participant"
     /\ Len(last.roles) > 0
     /\ Distinct(last.roles)
     /\ \A i \in 1..Len(last.roles) : last.roles[i].kind = "enum")
        => /\ last.result = "ok"
           /\ \E p \in report_participant :
                  /\ p.report_id = last.report
                  /\ p.report_id # NULL
                  /\ p.is_registered = last.registered
                  /\ RolesOf(p) = {last.roles[i].v : i \in 1..Len(last.roles)}
                  /\ Cardinality(role_associations(DB, p)) = Len(last.roles)

\* C8: create_participant(registered=True, two_reports=True) succeeds and
\* leaves a participant on each of the two reports it made, both of the same
\* registered identity.
C8_SharedRegisteredIdentity ==
    (/\ last.op = "create_participant"
     /\ last.registered
     /\ last.two_reports
     /\ last.roles = <<EnumMember("creator")>>)
        => /\ last.result = "ok"
           /\ \E p, q \in report_participant :
                  /\ p.report_id = last.report
                  /\ q.report_id = last.report + 1
                  /\ p.is_registered /\ q.is_registered
                  /\ p.user_id # NULL
                  /\ p.user_id = q.user_id

\* C9: every persisted participant holds at least one role assignment, and a
\* creation with no roles ends with an error.
C9_NonEmptyRoles ==
    /\ \A p \in report_participant : role_associations(DB, p) # {}
    /\ (last.op = "create_participant" /\ Len(last.roles) = 0) => IsError(last.result)

\* C10: every role row carries the report_id of the participant it belongs
\* to, and no report has two role rows with the same role.
C10_RoleUniquePerReport ==
    /\ \A x \in report_participant_role :
           \E p \in report_participant :
               p.id = x.participant_id /\ p.report_id = x.report_id
    /\ \A x, y \in report_participant_role :
           (x.role = y.role /\ x.report_id = y.report_id) => x = y

\* C10's case: two participants of one report, one of them "creator", and the
\* other's roles.append("creator") refused by the primary key.
C10_Witness ==
    /\ last.op = "assign_role"
    /\ last.role = "creator"
    /\ last.result = PK_ROLE
    /\ \E p, q \in report_participant :
           /\ p.id # q.id
           /\ p.report_id = q.report_id
           /\ "creator" \in RolesOf(p)
           /\ RolesOf(q) = {}

====
